---- MODULE Spec2Model ----
(***************************************************************************)
(* Model of ollama-streamlit-app.py: the session transcript                *)
(* st.session_state.messages, one script run of main() taken step by step, *)
(* and stream_chat's fragment accumulation.                                *)
(*                                                                         *)
(* Python strings are TLA+ strings (\o is str +).  An optional value       *)
(* (None or a value v) is the sequence <<>> or <<v>>.                      *)
(***************************************************************************)
EXTENDS Integers, Sequences, FiniteSets, TLC

VARIABLES
    messages,        \* st.session_state.messages: list of {"role", "content"}
    pc,              \* position of the script run inside main / stream_chat
    prompt,          \* main: prompt (st.chat_input), <<>> when None
    clear_clicked,   \* main: value of st.sidebar.button("Clear History")
    show_duration,   \* main: show_duration, "Yes" or "No"
    chat_messages,   \* main: messages, the list of ChatMessage passed to stream_chat
    response,        \* stream_chat: response, the running buffer
    delivered,       \* the fragments r.delta the model client has yielded so far
    published,       \* values written to response_placeholder, in order
    response_message,\* main: response_message, <<>> until stream_chat returned
    duration,        \* main: duration in hundredths of a second, <<>> until measured
    response_message_with_duration, \* main: the text handed to the commit
    e,               \* the exception in flight or caught: <<>> or <<str(e)>>
    raised_at,       \* where the exception in flight was raised ("" when none)
    user_idx,        \* index in messages of the user turn appended by this run (0: none)
    screen,          \* texts this run wrote to the page (st.write, st.error, st.success)
    logged,          \* texts this run passed to logging.error
    outcome,         \* how the run ended: "", "noprompt", "skipped", "committed", "failed", "crashed"
    commits,         \* times the commit step (lines 132-133) ran in this run
    dropped,         \* turns removed by Clear History in this run
    invocations      \* times stream_chat was called (line 122) in this run

vars == << messages, pc, prompt, clear_clicked, show_duration, chat_messages,
           response, delivered, published, response_message, duration,
           response_message_with_duration, e, raised_at, user_idx, screen,
           logged, outcome, commits, dropped, invocations >>

(***************************************************************************)
(* Bounds of the model and the inputs drawn at each step.                  *)
(***************************************************************************)
MaxTurns == 3    \* a submission starts only while the transcript is shorter
MaxFrags == 2    \* fragments one invocation may deliver before it ends

Prompts   == {"hi", "yo"}                 \* texts typed into st.chat_input
Fragments == {"He", "llo"}                \* values of r.delta
Causes    == {"timed out", ""}            \* str(e) of the faults that are Exceptions; Exception() has str ""
Interrupts == {"rerun"}                   \* exceptions outside Exception (script control, KeyboardInterrupt)
Faults    == Causes \cup Interrupts        \* everything a call may raise
Durations == {123}                        \* elapsed time, hundredths of a second
Toggle    == {"Yes", "No"}                \* st.sidebar.radio("Show Duration?")

(***************************************************************************)
(* Pure helpers.                                                           *)
(***************************************************************************)
Turn(role, content) == [role |-> role, content |-> content]

Last(s) == s[Len(s)]

Digit(n) ==
    CASE n = 0 -> "0" [] n = 1 -> "1" [] n = 2 -> "2" [] n = 3 -> "3"
      [] n = 4 -> "4" [] n = 5 -> "5" [] n = 6 -> "6" [] n = 7 -> "7"
      [] n = 8 -> "8" [] n = 9 -> "9"

RECURSIVE NatStr(_)
NatStr(n) == IF n < 10 THEN Digit(n) ELSE NatStr(n \div 10) \o Digit(n % 10)

\* f"{duration:.2f}" for a duration of cs hundredths of a second
Fmt2f(cs) == NatStr(cs \div 100) \o "." \o Digit((cs \div 10) % 10) \o Digit(cs % 10)

\* the toggle ignored: the annotation is always added
M_WithDuration(text, toggle, cs) ==
    text \o "\n\nDuration: " \o Fmt2f(cs) \o " seconds"

\* lines 126-129: the text to commit
WithDuration(text, toggle, cs) ==
    IF toggle = "Yes"
    THEN text \o "\n\nDuration: " \o Fmt2f(cs) \o " seconds"
    ELSE text

\* the fragment put in front of the buffer instead of behind it
M_Accumulate(buffer, delta) == delta \o buffer

\* line 48: response += r.delta
Accumulate(buffer, delta) == buffer \o delta

\* the placeholder is written once and not updated afterwards
M_Publish(pubs, buffer) == IF pubs = <<>> THEN <<buffer>> ELSE pubs

\* line 49: response_placeholder.write(response)
Publish(pubs, buffer) == Append(pubs, buffer)

\* the guard dropped: every commit appends
M_CommitGuard(msgs) == TRUE

\* line 132: the dedup guard
CommitGuard(msgs) == msgs = <<>> \/ Last(msgs).role # "assistant"

\* an empty final text is not committed
M_CommitTurn(msgs, content) ==
    IF content # "" /\ (msgs = <<>> \/ msgs[Len(msgs)].role # "assistant")
    THEN Append(msgs, [role |-> "assistant", content |-> content])
    ELSE msgs

\* the assistant turn is written over the last turn instead of appended
M_CommitTurnOverwrite(msgs, content) ==
    [msgs EXCEPT ![Len(msgs)] = [role |-> "assistant", content |-> content]]

\* lines 132-133: append the assistant turn unless the guard refuses
CommitTurn(msgs, content) ==
    IF CommitGuard(msgs) THEN Append(msgs, Turn("assistant", content)) ELSE msgs

\* only the prompt just submitted is sent, without the history
M_ToChatMessages(msgs) ==
    <<[role |-> msgs[Len(msgs)].role, content |-> msgs[Len(msgs)].content]>>

\* line 121: the projection of the transcript into ChatMessage objects
ToChatMessages(msgs) ==
    [i \in 1..Len(msgs) |-> [role |-> msgs[i].role, content |-> msgs[i].content]]

\* the clear forgotten: the transcript is kept
M_Cleared(msgs) == msgs

\* line 93: st.session_state.messages.clear()
Cleared(msgs) == <<>>

\* line 148: the turn the failure handler appends
FailureTurn(cause) == Turn("assistant", cause)

Contents(msgs) == {msgs[i].content : i \in 1..Len(msgs)}

(***************************************************************************)
(* Initial state: lines 22-23, no run in progress.                         *)
(***************************************************************************)
NoLocals ==
    /\ prompt = <<>>
    /\ clear_clicked = FALSE
    /\ show_duration = "Yes"
    /\ chat_messages = <<>>
    /\ response = ""
    /\ delivered = <<>>
    /\ published = <<>>
    /\ response_message = <<>>
    /\ duration = <<>>
    /\ response_message_with_duration = <<>>
    /\ e = <<>>
    /\ raised_at = ""
    /\ user_idx = 0
    /\ screen = {}
    /\ logged = {}
    /\ outcome = ""
    /\ commits = 0
    /\ dropped = 0
    /\ invocations = 0

Init ==
    /\ messages = <<>>
    /\ pc = "idle"
    /\ NoLocals

(***************************************************************************)
(* copy_to_clipboard, lines 59-70: the on_click callback of a copy button. *)
(* It runs before the script run its click starts; once pyperclip.copy has *)
(* returned (line 69) it writes its notice to the page (line 70).          *)
(***************************************************************************)
copy_to_clipboard(copied) ==
    IF copied THEN {"Message copied to clipboard!"} ELSE {}

\* lines 69-70: pyperclip.copy or st.success raises inside the callback: no
\* notice is written, and the script body is not run after a callback that
\* raised
CopyFault(cause) ==
    /\ pc = "idle"
    /\ \E i \in 1..Len(messages) : messages[i].role = "user"
    /\ e' = <<cause>>
    /\ raised_at' = "copy"
    /\ screen' = copy_to_clipboard(FALSE)
    /\ pc' = "done"
    /\ outcome' = "crashed"
    /\ UNCHANGED << messages, prompt, clear_clicked, show_duration,
                    chat_messages, response, delivered, published,
                    response_message, duration,
                    response_message_with_duration, user_idx, logged,
                    commits, dropped, invocations >>

(***************************************************************************)
(* main, lines 85-100: a script run starts.  The sidebar widgets and the   *)
(* chat input deliver their values; Clear History empties the transcript;  *)
(* a prompt is appended as a user turn.  A click on a copy button starts a *)
(* run of its own, after its callback: in that run the chat input returns  *)
(* None and Clear History is not clicked.                                  *)
(***************************************************************************)
RunStart(clear, p, toggle, copy) ==
    /\ pc = "idle"
    /\ copy => /\ \E i \in 1..Len(messages) : messages[i].role = "user"
               /\ p = <<>> /\ ~clear
    /\ LET afterClear == IF clear THEN Cleared(messages) ELSE messages
           cleared    == IF clear THEN {"Chat history cleared!"} ELSE {}
       IN  /\ p # <<>> => Len(afterClear) < MaxTurns
           /\ clear_clicked' = clear
           /\ prompt' = p
           /\ show_duration' = toggle
           /\ screen' = copy_to_clipboard(copy) \cup cleared
           /\ dropped' = IF clear THEN Len(messages) ELSE 0
           /\ IF p # <<>>
              THEN /\ messages' = Append(afterClear, Turn("user", p[1]))
                   /\ user_idx' = Len(afterClear) + 1
                   /\ pc' = "render"
                   /\ outcome' = ""
              ELSE /\ messages' = afterClear
                   /\ user_idx' = 0
                   /\ pc' = "done"
                   /\ outcome' = "noprompt"
    /\ UNCHANGED << chat_messages, response, delivered, published,
                    response_message, duration,
                    response_message_with_duration, e, raised_at, logged,
                    commits, invocations >>

\* lines 80-97 are inside no try block: a page call that raises ends the
\* run before the prompt is read, so no user turn is appended.  Raised by
\* the title or a sidebar widget (lines 80-92) the transcript is untouched;
\* raised by st.success of line 94 the transcript is already cleared (line
\* 93) and the notice is not written; raised by st.chat_input (line 97) the
\* clear and its notice have happened.
RunStartFault(clear, toggle, copy, cause, at) ==
    /\ pc = "idle"
    /\ copy => /\ \E i \in 1..Len(messages) : messages[i].role = "user"
               /\ ~clear
    /\ at \in {"sidebar", "clear", "chat_input"}
    /\ at = "sidebar" => ~clear
    /\ at = "clear" => clear
    /\ clear_clicked' = clear
    /\ show_duration' = toggle
    /\ messages' = IF clear THEN Cleared(messages) ELSE messages
    /\ dropped' = IF clear THEN Len(messages) ELSE 0
    /\ screen' = copy_to_clipboard(copy) \cup
                  (IF clear /\ at = "chat_input"
                   THEN {"Chat history cleared!"} ELSE {})
    /\ e' = <<cause>>
    /\ raised_at' = at
    /\ pc' = "done"
    /\ outcome' = "crashed"
    /\ UNCHANGED << prompt, chat_messages, response, delivered, published,
                    response_message, duration,
                    response_message_with_duration, user_idx, logged,
                    commits, invocations >>

(***************************************************************************)
(* main, lines 103-111: the transcript is rendered, one chat message and   *)
(* (for user turns) one copy button per turn.                              *)
(***************************************************************************)
RenderHistory ==
    /\ pc = "render"
    /\ screen' = screen \cup Contents(messages)
    /\ pc' = "check"
    /\ UNCHANGED << messages, prompt, clear_clicked, show_duration,
                    chat_messages, response, delivered, published,
                    response_message, duration,
                    response_message_with_duration, e, raised_at, user_idx,
                    logged, outcome,
                    commits, dropped, invocations >>

\* lines 109-110: the copy button of a user turn has the key
\* f"user_{content}", so the button of turn k asks for a key an earlier
\* button of the same run already holds when an earlier user turn has the
\* same content
RepeatedKey(msgs, k) ==
    /\ msgs[k].role = "user"
    /\ \E i \in 1..(k - 1) :
           msgs[i].role = "user" /\ msgs[i].content = msgs[k].content

\* except Exception (lines 54 and 146) catches the subclasses of Exception
Caught(cause) == cause \in Causes

\* line 118: what the spinner does on exit while an exception leaves the
\* with block: nothing (<<>>), or it raises an exception of its own
SpinnerExits == {<<>>} \cup {<<c>> : c \in Faults}

\* the exception that leaves main when `cause`, raised at `at`, passes the
\* exit of the with block: an exception raised by the exit replaces it
Leaving(cause, at, exit) ==
    IF exit = <<>> THEN [e |-> <<cause>>, raised_at |-> at]
                   ELSE [e |-> exit, raised_at |-> "spinner_exit"]

\* lines 103-111 lie outside the try block: an exception raised while turn
\* k is rendered ends the run and the failure handler is not reached.  The
\* turns before k are on the page; turn k is too when its button raises
\* (line 109), since the write of line 105 comes first.  The widget
\* registry raises for the first button that repeats a key; whether it
\* rejects is the rendering collaborator's choice, so RenderHistory stays
\* enabled too.
RenderHistoryFault(cause, k, at_button) ==
    /\ pc = "render"
    /\ k \in 1..Len(messages)
    /\ at_button => messages[k].role = "user"
    /\ cause = "duplicate widget key" =>
           /\ at_button
           /\ RepeatedKey(messages, k)
           /\ \A j \in 1..(k - 1) : ~RepeatedKey(messages, j)
    /\ e' = <<cause>>
    /\ raised_at' = "render"
    /\ screen' = screen \cup
                  {messages[i].content :
                       i \in 1..(IF at_button THEN k ELSE k - 1)}
    /\ pc' = "done"
    /\ outcome' = "crashed"
    /\ UNCHANGED << messages, prompt, clear_clicked, show_duration,
                    chat_messages, response, delivered, published,
                    response_message, duration,
                    response_message_with_duration, user_idx, logged,
                    commits, dropped, invocations >>

(***************************************************************************)
(* main, lines 114-116: generate only if the last turn is a user turn.     *)
(***************************************************************************)
CheckLastRole ==
    /\ pc = "check"
    /\ IF Last(messages).role = "user"
       THEN pc' = "build" /\ outcome' = outcome
       ELSE pc' = "done" /\ outcome' = "skipped"
    /\ UNCHANGED << messages, prompt, clear_clicked, show_duration,
                    chat_messages, response, delivered, published,
                    response_message, duration,
                    response_message_with_duration, e, raised_at, user_idx,
                    screen, logged,
                    commits, dropped, invocations >>

(***************************************************************************)
(* main, line 121: the message list for the model.                         *)
(***************************************************************************)
BuildMessages ==
    /\ pc = "build"
    /\ chat_messages' = ToChatMessages(messages)
    /\ pc' = "open"
    /\ UNCHANGED << messages, prompt, clear_clicked, show_duration, response,
                    delivered, published, response_message, duration,
                    response_message_with_duration, e, raised_at, user_idx,
                    screen, logged, outcome,
                    commits, dropped, invocations >>

\* line 118, before the try block of line 119: an exception raised while
\* the spinner is set up is caught by nothing; the run ends with the user
\* turn unanswered and stream_chat is not called
SpinnerFault(cause) ==
    /\ pc = "build"
    /\ e' = <<cause>>
    /\ raised_at' = "spinner"
    /\ pc' = "done"
    /\ outcome' = "crashed"
    /\ UNCHANGED << messages, prompt, clear_clicked, show_duration,
                    chat_messages, response, delivered, published,
                    response_message, duration,
                    response_message_with_duration, user_idx, screen, logged,
                    commits, dropped, invocations >>

\* line 121 inside the try block: a fault while building the list; the
\* handler of line 146 takes it when it is an Exception, otherwise it
\* leaves main
BuildMessagesFault(cause, exit) ==
    /\ pc = "build"
    /\ Caught(cause) => exit = <<>>
    /\ e' = Leaving(cause, "build", exit).e
    /\ raised_at' = Leaving(cause, "build", exit).raised_at
    /\ pc' = IF Caught(cause) THEN "except" ELSE "done"
    /\ outcome' = IF Caught(cause) THEN outcome ELSE "crashed"
    /\ UNCHANGED << messages, prompt, clear_clicked, show_duration,
                    chat_messages, response, delivered, published,
                    response_message, duration,
                    response_message_with_duration, user_idx, screen, logged,
                    commits, dropped, invocations >>

\* an empty assistant turn is put into the history when the stream opens,
\* to be filled in later
M_StreamOpen ==
    /\ pc = "open"
    /\ response' = ""
    /\ delivered' = <<>>
    /\ published' = <<>>
    /\ invocations' = invocations + 1
    /\ messages' = Append(messages, [role |-> "assistant", content |-> ""])
    /\ pc' = "stream"
    /\ UNCHANGED << prompt, clear_clicked, show_duration,
                    chat_messages, response_message, duration,
                    response_message_with_duration, e, raised_at, user_idx,
                    screen, logged, outcome,
                    commits, dropped >>

(***************************************************************************)
(* stream_chat, lines 41-44: the client is created, the stream is opened,  *)
(* the buffer starts empty.                                                *)
(***************************************************************************)
StreamOpen ==
    /\ pc = "open"
    /\ response' = ""
    /\ delivered' = <<>>
    /\ published' = <<>>
    /\ invocations' = invocations + 1
    /\ pc' = "stream"
    /\ UNCHANGED << messages, prompt, clear_clicked, show_duration,
                    chat_messages, response_message, duration,
                    response_message_with_duration, e, raised_at, user_idx,
                    screen, logged, outcome,
                    commits, dropped >>

\* each fragment is also appended to the history as an assistant turn
M_StreamFragment(delta) ==
    /\ pc = "stream"
    /\ Len(delivered) < MaxFrags
    /\ delivered' = Append(delivered, delta)
    /\ response' = response \o delta
    /\ published' = Append(published, response')
    /\ messages' = Append(messages, [role |-> "assistant", content |-> delta])
    /\ UNCHANGED << pc, prompt, clear_clicked, show_duration,
                    chat_messages, response_message, duration,
                    response_message_with_duration, e, raised_at, user_idx,
                    screen, logged, outcome,
                    commits, dropped, invocations >>

\* lines 47-49: one fragment arrives, is added to the buffer and published
StreamFragment(delta) ==
    /\ pc = "stream"
    /\ Len(delivered) < MaxFrags
    /\ delivered' = Append(delivered, delta)
    /\ response' = Accumulate(response, delta)
    /\ published' = Publish(published, response')
    /\ UNCHANGED << messages, pc, prompt, clear_clicked, show_duration,
                    chat_messages, response_message, duration,
                    response_message_with_duration, e, raised_at, user_idx,
                    screen, logged, outcome,
                    commits, dropped, invocations >>

\* lines 41-47: the client or the fragment iterator raises; at "open"
\* stream_chat has been called and fails before the first fragment.  The
\* handler of line 54 takes an Exception; anything else passes it and the
\* handler of line 146 and leaves main.
StreamFault(cause, exit) ==
    /\ pc \in {"open", "stream"}
    /\ Caught(cause) => exit = <<>>
    /\ e' = Leaving(cause, "stream", exit).e
    /\ raised_at' = Leaving(cause, "stream", exit).raised_at
    /\ invocations' = IF pc = "open" THEN invocations + 1 ELSE invocations
    /\ pc' = IF Caught(cause) THEN "stream_except" ELSE "done"
    /\ outcome' = IF Caught(cause) THEN outcome ELSE "crashed"
    /\ UNCHANGED << messages, prompt, clear_clicked, show_duration,
                    chat_messages, response, delivered, published,
                    response_message, duration,
                    response_message_with_duration, user_idx, screen, logged,
                    commits, dropped >>

\* lines 47-49: a fragment arrives and is added to the buffer (line 48),
\* then response_placeholder.write raises (line 49): the fragment is in
\* the buffer and was not published
PublishFault(delta, cause, exit) ==
    /\ pc = "stream"
    /\ Len(delivered) < MaxFrags
    /\ Caught(cause) => exit = <<>>
    /\ delivered' = Append(delivered, delta)
    /\ response' = Accumulate(response, delta)
    /\ e' = Leaving(cause, "stream", exit).e
    /\ raised_at' = Leaving(cause, "stream", exit).raised_at
    /\ pc' = IF Caught(cause) THEN "stream_except" ELSE "done"
    /\ outcome' = IF Caught(cause) THEN outcome ELSE "crashed"
    /\ UNCHANGED << messages, prompt, clear_clicked, show_duration,
                    chat_messages, published, response_message, duration,
                    response_message_with_duration, user_idx, screen, logged,
                    commits, dropped, invocations >>

\* lines 52-53: the fragment sequence is exhausted; the buffer is returned
\* and becomes main's response_message (line 122)
StreamReturn ==
    /\ pc = "stream"
    /\ response_message' = <<response>>
    /\ pc' = "commit"
    /\ UNCHANGED << messages, prompt, clear_clicked, show_duration,
                    chat_messages, response, delivered, published, duration,
                    response_message_with_duration, e, raised_at, user_idx,
                    screen, logged, outcome,
                    commits, dropped, invocations >>

\* lines 54-57: the fault is logged and raised again; nothing is returned
StreamExcept ==
    /\ pc = "stream_except"
    /\ logged' = logged \cup {"Error during streaming: " \o e[1]}
    /\ pc' = "except"
    /\ UNCHANGED << messages, prompt, clear_clicked, show_duration,
                    chat_messages, response, delivered, published,
                    response_message, duration,
                    response_message_with_duration, e, raised_at, user_idx,
                    screen, outcome,
                    commits, dropped, invocations >>

(***************************************************************************)
(* main, lines 123-133: the duration is measured, the text is annotated    *)
(* and the assistant turn is committed behind the dedup guard.             *)
(***************************************************************************)
Commit(cs) ==
    /\ pc = "commit"
    /\ duration' = <<cs>>
    /\ response_message_with_duration' =
           <<WithDuration(response_message[1], show_duration, cs)>>
    /\ messages' = CommitTurn(messages, response_message_with_duration'[1])
    /\ commits' = commits + 1
    /\ pc' = "display"
    /\ UNCHANGED << prompt, clear_clicked, show_duration, chat_messages,
                    response, delivered, published, response_message, e,
                    raised_at, user_idx, screen, logged, outcome, dropped, invocations >>

(***************************************************************************)
(* main, lines 136-144: the committed response is displayed.               *)
(***************************************************************************)
Display ==
    /\ pc = "display"
    /\ screen' = screen \cup {response_message_with_duration[1]}
    /\ pc' = "done"
    /\ outcome' = "committed"
    /\ UNCHANGED << messages, prompt, clear_clicked, show_duration,
                    chat_messages, response, delivered, published,
                    response_message, duration,
                    response_message_with_duration, e, raised_at, user_idx,
                    logged,
                    commits, dropped, invocations >>

\* lines 136-144 inside the try block: a fault while displaying the
\* response, raised by the write itself (lines 136-137, nothing written) or
\* after it by the copy button or the log call (lines 140-144, the response
\* is on the page)
DisplayFault(cause, written, exit) ==
    /\ pc = "display"
    /\ Caught(cause) => exit = <<>>
    /\ e' = Leaving(cause, "display", exit).e
    /\ raised_at' = Leaving(cause, "display", exit).raised_at
    /\ screen' = IF written
                 THEN screen \cup {response_message_with_duration[1]}
                 ELSE screen
    /\ pc' = IF Caught(cause) THEN "except" ELSE "done"
    /\ outcome' = IF Caught(cause) THEN outcome ELSE "crashed"
    /\ UNCHANGED << messages, prompt, clear_clicked, show_duration,
                    chat_messages, response, delivered, published,
                    response_message, duration,
                    response_message_with_duration, user_idx, logged,
                    commits, dropped, invocations >>

\* the failure handler tries the invocation again after a failed stream
M_HandleFailure ==
    /\ pc = "except"
    /\ IF raised_at = "stream"
       THEN /\ pc' = "open"
            /\ UNCHANGED << messages, screen, logged, outcome >>
       ELSE /\ messages' = Append(messages, [role |-> "assistant", content |-> e[1]])
            /\ screen' = screen \cup {"An error occurred while generating the response."}
            /\ logged' = logged \cup {"Error: " \o e[1]}
            /\ pc' = "done"
            /\ outcome' = "failed"
    /\ UNCHANGED << prompt, clear_clicked, show_duration, chat_messages,
                    response, delivered, published, response_message,
                    duration, response_message_with_duration, e, raised_at,
                    user_idx, commits, dropped, invocations >>

(***************************************************************************)
(* main, lines 146-150: the failure handler.                               *)
(***************************************************************************)
HandleFailure ==
    /\ pc = "except"
    /\ messages' = Append(messages, FailureTurn(e[1]))
    /\ screen' = screen \cup {"An error occurred while generating the response."}
    /\ logged' = logged \cup {"Error: " \o e[1]}
    /\ pc' = "done"
    /\ outcome' = "failed"
    /\ UNCHANGED << prompt, clear_clicked, show_duration, chat_messages,
                    response, delivered, published, response_message,
                    duration, response_message_with_duration, e, raised_at,
                    user_idx,
                    commits, dropped, invocations >>

\* line 149, inside no try block: st.error raises after the failure turn
\* was appended (line 148); the banner is not written and line 150 is not
\* reached.  The exception leaves the with block of line 118, whose exit
\* may raise in its place.
HandleFailureFault(cause, exit) ==
    /\ pc = "except"
    /\ messages' = Append(messages, FailureTurn(e[1]))
    /\ e' = Leaving(cause, "handler", exit).e
    /\ raised_at' = Leaving(cause, "handler", exit).raised_at
    /\ pc' = "done"
    /\ outcome' = "crashed"
    /\ UNCHANGED << prompt, clear_clicked, show_duration, chat_messages,
                    response, delivered, published, response_message,
                    duration, response_message_with_duration, user_idx,
                    screen, logged, commits, dropped, invocations >>

\* line 118, leaving the with block normally: the spinner raises on exit,
\* after the response was displayed (lines 136-144) or after the failure
\* handler ran (lines 146-150); the exception is caught by nothing.  (The
\* exit raising while an exception leaves the block is the `exit` input of
\* the fault actions.)
SpinnerExitFault(cause) ==
    /\ pc \in {"display", "except"}
    /\ IF pc = "display"
       THEN /\ screen' = screen \cup {response_message_with_duration[1]}
            /\ UNCHANGED << messages, logged >>
       ELSE /\ messages' = Append(messages, FailureTurn(e[1]))
            /\ screen' = screen \cup
                   {"An error occurred while generating the response."}
            /\ logged' = logged \cup {"Error: " \o e[1]}
    /\ e' = <<cause>>
    /\ raised_at' = "spinner_exit"
    /\ pc' = "done"
    /\ outcome' = "crashed"
    /\ UNCHANGED << prompt, clear_clicked, show_duration, chat_messages,
                    response, delivered, published, response_message,
                    duration, response_message_with_duration, user_idx,
                    commits, dropped, invocations >>

(***************************************************************************)
(* main returns (line 154): the run is over and its locals are gone.       *)
(***************************************************************************)
RunEnd ==
    /\ pc = "done"
    /\ pc' = "idle"
    /\ prompt' = <<>>
    /\ clear_clicked' = FALSE
    /\ show_duration' = "Yes"
    /\ chat_messages' = <<>>
    /\ response' = ""
    /\ delivered' = <<>>
    /\ published' = <<>>
    /\ response_message' = <<>>
    /\ duration' = <<>>
    /\ response_message_with_duration' = <<>>
    /\ e' = <<>>
    /\ raised_at' = ""
    /\ user_idx' = 0
    /\ screen' = {}
    /\ logged' = {}
    /\ outcome' = ""
    /\ commits' = 0
    /\ dropped' = 0
    /\ invocations' = 0
    /\ UNCHANGED messages

Next ==
    \/ \E clear \in BOOLEAN, p \in {<<>>} \cup {<<q>> : q \in Prompts},
          toggle \in Toggle, copy \in BOOLEAN :
           RunStart(clear, p, toggle, copy)
    \/ \E clear \in BOOLEAN, toggle \in Toggle, copy \in BOOLEAN,
          cause \in Faults, at \in {"sidebar", "clear", "chat_input"} :
           RunStartFault(clear, toggle, copy, cause, at)
    \/ \E cause \in Faults : CopyFault(cause)
    \/ RenderHistory
    \/ \E cause \in Faults \cup {"duplicate widget key"},
          k \in 1..Len(messages), at_button \in BOOLEAN :
           RenderHistoryFault(cause, k, at_button)
    \/ CheckLastRole
    \/ \E cause \in Faults : SpinnerFault(cause)
    \/ BuildMessages
    \/ \E cause \in Faults, exit \in SpinnerExits :
           BuildMessagesFault(cause, exit)
    \/ StreamOpen
    \/ \E delta \in Fragments : StreamFragment(delta)
    \/ \E cause \in Faults, exit \in SpinnerExits : StreamFault(cause, exit)
    \/ \E delta \in Fragments, cause \in Faults, exit \in SpinnerExits :
           PublishFault(delta, cause, exit)
    \/ StreamReturn
    \/ StreamExcept
    \/ \E cs \in Durations : Commit(cs)
    \/ Display
    \/ \E cause \in Faults, written \in BOOLEAN, exit \in SpinnerExits :
           DisplayFault(cause, written, exit)
    \/ HandleFailure
    \/ \E cause \in Faults, exit \in SpinnerExits :
           HandleFailureFault(cause, exit)
    \/ \E cause \in Faults : SpinnerExitFault(cause)
    \/ RunEnd

Spec == Init /\ [][Next]_vars

(***************************************************************************)
(* The run never stops half way: every step of a run that is enabled is    *)
(* eventually taken (the script runs to its end).  Starting a run is up to *)
(* the user and carries no fairness.                                       *)
(***************************************************************************)
RunStep ==
    \/ RenderHistory
    \/ \E cause \in Faults \cup {"duplicate widget key"},
          k \in 1..Len(messages), at_button \in BOOLEAN :
           RenderHistoryFault(cause, k, at_button)
    \/ CheckLastRole
    \/ \E cause \in Faults : SpinnerFault(cause)
    \/ BuildMessages
    \/ \E cause \in Faults, exit \in SpinnerExits :
           BuildMessagesFault(cause, exit)
    \/ StreamOpen
    \/ \E delta \in Fragments : StreamFragment(delta)
    \/ \E cause \in Faults, exit \in SpinnerExits : StreamFault(cause, exit)
    \/ \E delta \in Fragments, cause \in Faults, exit \in SpinnerExits :
           PublishFault(delta, cause, exit)
    \/ StreamReturn
    \/ StreamExcept
    \/ \E cs \in Durations : Commit(cs)
    \/ Display
    \/ \E cause \in Faults, written \in BOOLEAN, exit \in SpinnerExits :
           DisplayFault(cause, written, exit)
    \/ HandleFailure
    \/ \E cause \in Faults, exit \in SpinnerExits :
           HandleFailureFault(cause, exit)
    \/ \E cause \in Faults : SpinnerExitFault(cause)
    \/ RunEnd

FairSpec == Spec /\ WF_vars(RunStep)

(***************************************************************************)
(* The commit step on its own (lines 132-133), applied repeatedly to the   *)
(* state a run is in when it reaches the commit: a transcript that ends    *)
(* with the run's user turn, and a final text.                             *)
(***************************************************************************)
MaxCommits == 2   \* times the commit step is applied

FinalTexts == {WithDuration(t, toggle, cs) :
                   t \in {"", "He", "Hello"}, toggle \in Toggle, cs \in Durations}

EarlierTurns ==
    {<<>>} \cup {<<Turn("user", q), Turn("assistant", t)>> :
                     q \in Prompts, t \in {"Hello", "timed out"}}

InitCommit ==
    /\ pc = "recommit"
    /\ \E before \in EarlierTurns, q \in Prompts :
           /\ messages = Append(before, Turn("user", q))
           /\ user_idx = Len(before) + 1
           /\ prompt = <<q>>
    /\ \E text \in FinalTexts : response_message_with_duration = <<text>>
    /\ clear_clicked = FALSE
    /\ show_duration = "Yes"
    /\ chat_messages = <<>>
    /\ response = ""
    /\ delivered = <<>>
    /\ published = <<>>
    /\ response_message = <<>>
    /\ duration = <<>>
    /\ e = <<>>
    /\ raised_at = ""
    /\ screen = {}
    /\ logged = {}
    /\ outcome = ""
    /\ commits = 0
    /\ dropped = 0
    /\ invocations = 0

CommitAgain ==
    /\ pc = "recommit"
    /\ commits < MaxCommits
    /\ messages' = CommitTurn(messages, response_message_with_duration[1])
    /\ commits' = commits + 1
    /\ UNCHANGED << pc, prompt, clear_clicked, show_duration, chat_messages,
                    response, delivered, published, response_message,
                    duration, response_message_with_duration, e, raised_at,
                    user_idx, screen, logged, outcome, dropped, invocations >>

SpecCommit == InitCommit /\ [][CommitAgain]_vars

(***************************************************************************)
(* Definitions used to state the properties.                               *)
(***************************************************************************)
\* user, assistant, user, assistant, ...: one assistant turn per user turn
Alternates(msgs) ==
    /\ Len(msgs) % 2 = 0
    /\ \A i \in 1..Len(msgs) :
           msgs[i].role = IF i % 2 = 1 THEN "user" ELSE "assistant"

\* f1 + f2 + ... + fn
RECURSIVE Concat(_)
Concat(fs) == IF fs = <<>> THEN "" ELSE fs[1] \o Concat(Tail(fs))

\* the commit step of lines 123-133 has run in this run
CommitRan == duration # <<>>

\* the turn right after the user turn of this run
AnswerTurn == messages[user_idx + 1]

(***************************************************************************)
(* C1.  Alternation.                                                       *)
(***************************************************************************)
\* C1: whenever no submission is being processed, the transcript alternates
\* user, assistant, user, assistant, ... with exactly one assistant turn for
\* each user turn.
C1_Alternation == pc = "idle" => Alternates(messages)

(***************************************************************************)
(* C2.  Idempotent dedup.                                                  *)
(***************************************************************************)
\* C2: the commit step appends the assistant turn when the last turn is the
\* user turn and leaves the transcript unchanged when the last turn is
\* already an assistant turn: however often the same final text is
\* committed after one user turn, exactly one assistant turn follows it.
C2_DedupOnce ==
    pc = "recommit" =>
        /\ commits = 0 => /\ Len(messages) = user_idx
                          /\ Last(messages).role = "user"
        /\ commits >= 1 =>
               /\ Len(messages) = user_idx + 1
               /\ messages[user_idx].role = "user"
               /\ AnswerTurn = Turn("assistant", response_message_with_duration[1])

C2_Witness ==
    /\ pc = "recommit"
    /\ commits = 2
    /\ Len(messages) = user_idx + 1
    /\ AnswerTurn = Turn("assistant", "Hello")

(***************************************************************************)
(* C3.  Order preservation.                                                *)
(***************************************************************************)
\* C3: the text stream_chat returns is f1 + f2 + ... + fn for the fragments
\* delivered, in that order, and with duration reporting disabled that is
\* the content of the committed assistant turn.
C3_OrderPreserved ==
    /\ response_message # <<>> => response_message[1] = Concat(delivered)
    /\ (CommitRan /\ show_duration = "No") =>
           AnswerTurn = Turn("assistant", Concat(delivered))

C3_Witness ==
    /\ CommitRan
    /\ show_duration = "No"
    /\ delivered = <<"He", "llo">>
    /\ response_message = <<"Hello">>
    /\ AnswerTurn.content = "Hello"

(***************************************************************************)
(* C4.  Failure atomicity.                                                 *)
(***************************************************************************)
\* C4: when the stream has failed after f1..fk (k >= 0), stream_chat has
\* returned no text, and no turn added to the transcript from then on has
\* the partial text f1 + ... + fk as its content.
C4_FailureAtomic ==
    [][ (raised_at' = "stream" \/ raised_at = "stream") =>
            /\ response' = Concat(delivered')
            /\ response_message' = <<>>
            /\ \A i \in (Len(messages) + 1)..Len(messages') :
                   messages'[i].content # response' ]_vars

(***************************************************************************)
(* C5.  The failure turn is a fixed, user-safe text.                       *)
(***************************************************************************)
\* C5: the text of the cause of a failure is never the content of a turn of
\* the transcript and is never written to the page.
C5_CauseNeverShown ==
    /\ \A i \in 1..Len(messages) : messages[i].content \notin Causes
    /\ screen \cap Causes = {}

(***************************************************************************)
(* C6.  One assistant turn after the failure handler.                      *)
(***************************************************************************)
\* C6: after the failure handler has run, the user turn of the run is
\* followed by exactly one assistant turn, the failure turn.
C6_OneTurnAfterFailure ==
    outcome = "failed" =>
        /\ Len(messages) = user_idx + 1
        /\ AnswerTurn = Turn("assistant", e[1])

(***************************************************************************)
(* C7.  Empty stream.                                                      *)
(***************************************************************************)
\* C7: a stream that ends cleanly after zero fragments is a success:
\* stream_chat returns "", no exception is in flight, and the commit step
\* appends exactly one assistant turn whose content is "" (duration
\* reporting disabled) or the duration annotation alone (enabled).
C7_EmptyStream ==
    /\ (pc = "commit" /\ delivered = <<>>) =>
           response_message = <<"">> /\ e = <<>> /\ outcome = ""
    /\ (CommitRan /\ delivered = <<>> /\ raised_at = "") =>
           /\ pc \in {"display", "done"}
           /\ outcome \in {"", "committed"}
           /\ Len(messages) = user_idx + 1
           /\ AnswerTurn.role = "assistant"
           /\ AnswerTurn.content =
                  IF show_duration = "No" THEN ""
                  ELSE "\n\nDuration: " \o Fmt2f(duration[1]) \o " seconds"

C7_Witness ==
    /\ pc = "done"
    /\ outcome = "committed"
    /\ delivered = <<>>
    /\ show_duration = "No"
    /\ messages = <<Turn("user", "hi"), Turn("assistant", "")>>

(***************************************************************************)
(* C8.  Duration annotation toggle.                                        *)
(***************************************************************************)
\* "<number>" of the annotation, written out for the durations drawn
DurationText(cs) == CASE cs = 5 -> "0.05" [] cs = 123 -> "1.23"

\* C8: once the commit step has run on final text T, the committed turn's
\* content is T with reporting disabled and T followed by
\* "\n\nDuration: <number> seconds" with reporting enabled; either way the
\* commit leaves exactly one assistant turn after the user turn.
C8_DurationToggle ==
    CommitRan =>
        /\ AnswerTurn.role = "assistant"
        /\ show_duration = "No" => AnswerTurn.content = response_message[1]
        /\ show_duration = "Yes" =>
               AnswerTurn.content =
                   response_message[1] \o "\n\nDuration: "
                       \o DurationText(duration[1]) \o " seconds"
        /\ pc = "display" => Len(messages) = user_idx + 1

C8_Witness ==
    /\ pc = "display"
    /\ show_duration = "Yes"
    /\ duration = <<123>>
    /\ AnswerTurn = Turn("assistant", "Hello\n\nDuration: 1.23 seconds")

(***************************************************************************)
(* C9.  Clear resets cleanly.                                              *)
(***************************************************************************)
\* C9: a run in which Clear History was clicked leaves the transcript empty
\* (from an empty transcript too), or holding only the user turn submitted
\* in that run; and the first submission on an empty transcript yields a
\* transcript that is exactly that user turn.
C9_ClearResets ==
    [][ /\ (pc = "idle" /\ pc' # "idle" /\ clear_clicked') =>
               messages' = IF prompt' = <<>> THEN <<>>
                           ELSE <<Turn("user", prompt'[1])>>
        /\ (pc = "idle" /\ messages = <<>> /\ prompt' # <<>>) =>
               messages' = <<Turn("user", prompt'[1])>> ]_vars

C9_Witness ==
    /\ pc = "render"
    /\ clear_clicked
    /\ dropped = 2
    /\ messages = <<Turn("user", "yo")>>

(***************************************************************************)
(* C10.  Every started submission settles.                                 *)
(***************************************************************************)
\* the model has been invoked for the user turn of this run
Invoked == pc \in {"open", "stream", "stream_except"}

\* the run has ended with its user turn answered: committed or failure-committed
Settled ==
    /\ pc = "done"
    /\ outcome \in {"committed", "failed"}
    /\ Len(messages) > user_idx
    /\ Last(messages).role = "assistant"

\* C10: once the model is invoked for a user turn, the run eventually ends
\* in the committed or in the failure-committed state, whatever is raised
\* during the invocation or the streaming.
C10_Settles == Invoked ~> Settled

(***************************************************************************)
(* C11.  Incremental rendering in order.                                   *)
(***************************************************************************)
\* C11 as stated: during an invocation there is one publication per
\* fragment, in fragment order; the i-th published value is f1 + ... + fi,
\* each published value followed by the next fragment is the next published
\* value, and the last published value is the text stream_chat returns.
C11_IncrementalRendering ==
    /\ Len(published) = Len(delivered)
    /\ \A i \in 1..Len(published) :
           published[i] = Concat(SubSeq(delivered, 1, i))
    /\ \A i \in 1..(Len(published) - 1) :
           published[i + 1] = published[i] \o delivered[i + 1]
    /\ (response_message # <<>> /\ published # <<>>) =>
           Last(published) = response_message[1]

\* C11 amended: there is one publication per fragment whose write
\* succeeded, in fragment order, the i-th being f1 + ... + fi and each
\* extending the one before by the next fragment; while the stream runs and
\* when stream_chat returns every received fragment has been published and
\* the last published value is the returned text; only the last received
\* fragment can be unpublished, when its own write raised, and then the
\* buffer holds it and stream_chat returns nothing.
C11_PublishedUnlessWriteRaised ==
    /\ Len(published) \in {Len(delivered), Len(delivered) - 1}
    /\ Len(published) # Len(delivered) =>
           /\ e # <<>>
           /\ pc \in {"stream_except", "except", "done"}
           /\ response = Concat(delivered)
           /\ response_message = <<>>
    /\ pc \in {"stream", "commit", "display"} =>
           Len(published) = Len(delivered)
    /\ \A i \in 1..Len(published) :
           published[i] = Concat(SubSeq(delivered, 1, i))
    /\ \A i \in 1..(Len(published) - 1) :
           published[i + 1] = published[i] \o delivered[i + 1]
    /\ response_message # <<>> =>
           /\ Len(published) = Len(delivered)
           /\ published # <<>> => Last(published) = response_message[1]

C11_Witness ==
    /\ pc = "stream_except"
    /\ delivered = <<"He", "llo">>
    /\ published = <<"He">>
    /\ response = "Hello"

(***************************************************************************)
(* C13.  The message list passed to the model.                             *)
(***************************************************************************)
\* C13: the message list built for the invocation is the whole transcript
\* as it stands when the model is invoked, turn by turn in order with role
\* and content unchanged; it ends with the user turn just submitted.
C13_WholeTranscriptPassed ==
    pc \in {"open", "stream", "stream_except", "commit"} =>
        /\ Len(chat_messages) = user_idx
        /\ \A i \in 1..user_idx :
               /\ chat_messages[i].role = messages[i].role
               /\ chat_messages[i].content = messages[i].content
        /\ chat_messages[user_idx] = Turn("user", prompt[1])
        /\ pc # "commit" => Len(messages) = user_idx

C13_Witness ==
    /\ pc = "stream"
    /\ chat_messages = << Turn("user", "hi"), Turn("assistant", "timed out"),
                          Turn("user", "yo") >>

(***************************************************************************)
(* C14.  Committed turns are immutable.                                    *)
(***************************************************************************)
\* s is an initial part of t
IsPrefix(s, t) ==
    /\ Len(s) <= Len(t)
    /\ \A i \in 1..Len(s) : s[i] = t[i]

\* C14: every step leaves the transcript unchanged, appends one turn at its
\* end, or empties it; the start of a run, which holds both the clear and
\* the append of the prompt, empties it and then appends that one user
\* turn.  No step changes, removes or inserts a single turn.
C14_TurnsImmutable ==
    [][ \/ messages' = messages
        \/ messages' = <<>>
        \/ /\ Len(messages') = Len(messages) + 1
           /\ IsPrefix(messages, messages')
        \/ /\ pc = "idle" /\ clear_clicked' /\ prompt' # <<>>
           /\ messages' = <<Turn("user", prompt'[1])>> ]_vars

C14_Witness ==
    /\ pc = "done"
    /\ outcome = "failed"
    /\ Len(messages) = 4
    /\ messages[1] = Turn("user", "hi")
    /\ messages[2] = Turn("assistant", "Hello")
    /\ messages[3] = Turn("user", "yo")
    /\ messages[4] = Turn("assistant", "timed out")

(***************************************************************************)
(* C15.  Buffer, then commit.                                              *)
(***************************************************************************)
\* C15: while stream_chat runs (from its start until it has returned or
\* raised) no step changes the transcript, whatever number of fragments
\* arrives; the step that commits the response appends exactly one turn,
\* and the commit step runs at most once in a run.
C15_BufferThenCommit ==
    [][ /\ pc \in {"open", "stream", "stream_except"} => messages' = messages
        /\ (pc = "commit" /\ pc' = "display") =>
               /\ Len(messages') = Len(messages) + 1
               /\ Last(messages') = Turn("assistant", response_message_with_duration'[1])
        /\ commits' <= 1 ]_vars

C15_Witness ==
    /\ pc = "display"
    /\ delivered = <<"He", "llo">>
    /\ Len(published) = 2
    /\ Len(messages) = user_idx + 1
    /\ commits = 1

(***************************************************************************)
(* C16.  The dedup guard never refuses.                                    *)
(***************************************************************************)
\* C16: whenever a run reaches the check before generation or the commit
\* after stream_chat returned, the last turn of the transcript is the user
\* turn appended in that run, so generation is never skipped and the
\* commit always appends.
C16_GuardAlwaysPasses ==
    /\ pc \in {"check", "commit"} =>
           /\ Len(messages) = user_idx
           /\ Last(messages) = Turn("user", prompt[1])
    /\ pc = "commit" => CommitGuard(messages)
    /\ outcome # "skipped"
    /\ CommitRan => /\ Len(messages) >= user_idx + 1
                    /\ AnswerTurn =
                           Turn("assistant", response_message_with_duration[1])

C16_Witness ==
    /\ pc = "commit"
    /\ user_idx = 3
    /\ messages[2].role = "assistant"
    /\ response_message = <<"He">>

(***************************************************************************)
(* C17.  One model invocation per submission.                              *)
(***************************************************************************)
\* C17 as stated: a run with a prompt has invoked stream_chat exactly once
\* when it ends, and a run without a prompt has invoked it zero times and
\* appended no user turn.
C17_ExactlyOncePerSubmission ==
    pc = "done" =>
        /\ prompt # <<>> => invocations = 1
        /\ prompt = <<>> => invocations = 0 /\ user_idx = 0

\* C17 amended: a run invokes stream_chat at most once, never again after a
\* failure, and only after appending the user turn; a run with a prompt
\* ends with exactly one invocation unless an exception was raised before
\* the message list of line 121 was built (at the start of the run, in the
\* display loop, at the spinner or while building the list), and then with
\* none; a run in which nothing is raised invokes it exactly once when it
\* has a prompt; a run without a prompt invokes it zero times and appends
\* no turn.
C17_AtMostOncePerSubmission ==
    [][ /\ invocations' <= 1
        /\ invocations' # invocations /\ invocations' = 1 =>
               /\ pc = "open"
               /\ Len(messages) = user_idx
               /\ Last(messages) = Turn("user", prompt[1])
        /\ pc' = "done" =>
               /\ invocations' = 1 <=>
                      (prompt' # <<>> /\ chat_messages' # <<>>)
               /\ chat_messages' = <<>> =>
                      (prompt' = <<>> \/
                       raised_at' \in {"render", "spinner", "build",
                                       "handler", "spinner_exit"})
               /\ (prompt' # <<>> /\ e' = <<>>) => invocations' = 1
        /\ (pc = "idle" /\ pc' # "idle" /\ prompt' = <<>>) =>
               /\ pc' = "done"
               /\ messages' \in {messages, <<>>} ]_vars

C17_Witness ==
    /\ pc = "done"
    /\ outcome = "failed"
    /\ raised_at = "stream"
    /\ prompt = <<"hi">>
    /\ invocations = 1
    /\ delivered = <<"He">>

====
